---- MODULE Spec2Model ----
(***************************************************************************)
(* Model of core.js (efetivo-bovinos): CSV import, weather preload pool,   *)
(* weather cache, per-animal pass and the persisted state.                 *)
(*                                                                         *)
(* JavaScript values are modelled as follows.                              *)
(*   number      : Num(v) with v an integer, or NaN                        *)
(*   null        : Null                                                    *)
(*   Date        : Num(days since 1970-01-01) (every Date of the program   *)
(*                 is a UTC midnight), NaN for an Invalid Date             *)
(*   string      : a sequence of one-character strings                     *)
(* Growth rates are carried in 1/RateDen kg/day and climate factors in     *)
(* hundredths; the rows offered keep every quotient of the program exact.  *)
(***************************************************************************)
EXTENDS Integers, Sequences, FiniteSets, TLC

(* ------------------------------ bounds --------------------------------- *)
\* longest CSV (data rows) offered to a single import
MaxRows == 2
\* number of successive imports in the repeated-import scenario
MaxRuns == 2
\* most groups in the groupsOut handed to computeForecast
MaxGroups == 2

(* --------------------------- JS value helpers -------------------------- *)
NaN == [t |-> "nan"]
Null == [t |-> "null"]
Num(v) == [t |-> "num", v |-> v]
\* Number.isFinite
IsFinite(x) == x.t = "num"

Min(a, b) == IF a <= b THEN a ELSE b
Max(a, b) == IF a >= b THEN a ELSE b

DigitChars == <<"0", "1", "2", "3", "4", "5", "6", "7", "8", "9">>
NaNStr == <<"N", "a", "N">>

RECURSIVE NatStr(_)
\* String(n) for an integer n >= 0
NatStr(n) == IF n < 10 THEN <<DigitChars[n + 1]>>
             ELSE NatStr(n \div 10) \o <<DigitChars[(n % 10) + 1]>>

\* String(x) / template interpolation of a number
NumStr(x) == IF ~IsFinite(x) THEN NaNStr
             ELSE IF x.v < 0 THEN <<"-">> \o NatStr(-x.v) ELSE NatStr(x.v)

\* String(x).padStart(2, "0")
Pad2(x) == LET s == NumStr(x) IN IF Len(s) < 2 THEN <<"0">> \o s ELSE s

\* s.slice(a, b), 0-based, end exclusive, clipped to the string
Slice(s, a, b) == SubSeq(s, a + 1, Min(b, Len(s)))

DigitVal(c) == CHOOSE d \in 0..9 : DigitChars[d + 1] = c
IsDigit(c) == \E d \in 0..9 : DigitChars[d + 1] = c
AllDigits(s) == \A i \in 1..Len(s) : IsDigit(s[i])

RECURSIVE DigitsVal(_)
DigitsVal(s) == IF s = <<>> THEN 0
                ELSE 10 * DigitsVal(SubSeq(s, 1, Len(s) - 1)) + DigitVal(s[Len(s)])

\* unary plus on a string: "" is 0, an optionally signed run of digits is its
\* value, anything else is NaN
ToNumber(s) ==
  IF s = <<>> THEN Num(0)
  ELSE IF AllDigits(s) THEN Num(DigitsVal(s))
  ELSE IF s[1] \in {"-", "+"} /\ Len(s) > 1 /\ AllDigits(Tail(s))
       THEN Num(IF s[1] = "-" THEN -DigitsVal(Tail(s)) ELSE DigitsVal(Tail(s)))
  ELSE NaN

(* ------------------------------- dates --------------------------------- *)
\* days since 1970-01-01 of the proleptic Gregorian date y-m-d (m in 1..12)
DaysFromCivil(y, m, d) ==
  LET yy == IF m <= 2 THEN y - 1 ELSE y
      era == yy \div 400
      yoe == yy - era * 400
      mp == (m + 9) % 12
      doy == (153 * mp + 2) \div 5 + d - 1
      doe == yoe * 365 + yoe \div 4 - yoe \div 100 + doy
  IN era * 146097 + doe - 719468

\* [y, m, d] of a day number
CivilFromDays(z) ==
  LET zz == z + 719468
      era == zz \div 146097
      doe == zz - era * 146097
      yoe == (doe - doe \div 1460 + doe \div 36524 - doe \div 146096) \div 365
      doy == doe - (365 * yoe + yoe \div 4 - yoe \div 100)
      mp == (5 * doy + 2) \div 153
      d == doy - (153 * mp + 2) \div 5 + 1
      m == IF mp < 10 THEN mp + 3 ELSE mp - 9
  IN [y |-> IF m <= 2 THEN yoe + era * 400 + 1 ELSE yoe + era * 400, m |-> m, d |-> d]

\* new Date(Date.UTC(y, mo, d)): mo is 0-based, years 0..99 mean 1900..1999,
\* months and days overflow into the next year or month, NaN gives Invalid Date
DateUTC(y, mo, d) ==
  IF ~IsFinite(y) \/ ~IsFinite(mo) \/ ~IsFinite(d) THEN NaN
  ELSE LET y1 == IF y.v >= 0 /\ y.v <= 99 THEN 1900 + y.v ELSE y.v
           ym == y1 + (mo.v \div 12)
           mn == mo.v % 12
       IN Num(DaysFromCivil(ym, mn + 1, 1) + d.v - 1)

getUTCFullYear(dt) == IF IsFinite(dt) THEN Num(CivilFromDays(dt.v).y) ELSE NaN
getUTCMonth(dt) == IF IsFinite(dt) THEN Num(CivilFromDays(dt.v).m - 1) ELSE NaN
getUTCDate(dt) == IF IsFinite(dt) THEN Num(CivilFromDays(dt.v).d) ELSE NaN
Plus1(x) == IF IsFinite(x) THEN Num(x.v + 1) ELSE NaN
Minus1(x) == IF IsFinite(x) THEN Num(x.v - 1) ELSE NaN

\* isoDateUTC: the year is not padded
isoDateUTC(dt) ==
  NumStr(getUTCFullYear(dt)) \o <<"-">> \o Pad2(Plus1(getUTCMonth(dt)))
    \o <<"-">> \o Pad2(getUTCDate(dt))

\* daysBetweenUTC
daysBetweenUTC(a, b) ==
  IF a = Null \/ b = Null THEN NaN
  ELSE IF ~IsFinite(a) \/ ~IsFinite(b) THEN NaN
  ELSE Num(b.v - a.v)

\* parseDatePT on a field: "" and text matching neither pattern give null; a
\* field matching one of the two patterns is given by its year, month and day
\* groups
NoText == [t |-> "empty"]
BadText == [t |-> "text"]
DateText(y, m, d) == [t |-> "ymd", y |-> y, m |-> m, d |-> d]
parseDatePT(s) ==
  IF s.t # "ymd" THEN Null
  ELSE LET dt == DateUTC(Num(s.y), Num(s.m - 1), Num(s.d))
       IN IF IsFinite(dt) THEN dt ELSE Null

\* parseNumber on a field: "" and non-numeric text give NaN
NumText(n) == [t |-> "number", v |-> n]
parseNumber(s) == IF s.t = "number" THEN Num(s.v) ELSE NaN

(* ------------------------------- rules --------------------------------- *)
\* program constants (DEFAULTS and the literals of the rules)
METEO_CONCURRENCY == 6
\* rates are in 1/RateDen kg/day; 660/600 = 1.10
RateDen == 600
CONSERVATIVE_FALLBACK_GMD == 660
DefaultTargetM == 620
DefaultTargetF == 520

\* performanceStatus: [estado, class, sort, bucket]; r = gmdInd / gmdMediaGrupo
performanceStatus(gmdInd, gmdMediaGrupo) ==
  IF ~IsFinite(gmdInd) \/ ~IsFinite(gmdMediaGrupo) THEN <<"sem historico", "muted", 9, "none">>
  ELSE IF gmdMediaGrupo.v <= 0 THEN <<"sem historico", "muted", 9, "none">>
  ELSE IF gmdInd.v * 100 >= 95 * gmdMediaGrupo.v THEN <<"Normal", "ok", 3, "g">>
  ELSE IF gmdInd.v * 100 >= 80 * gmdMediaGrupo.v THEN <<"A vigiar", "warn", 2, "o">>
  ELSE <<"Atrasado", "bad", 1, "r">>

\* confidenceByDays
confidenceByDays(days) ==
  IF ~IsFinite(days) THEN <<"-", "muted">>
  ELSE IF days.v < 14 THEN <<"Alta", "ok">>
  ELSE IF days.v < 35 THEN <<"Media", "warn">>
  ELSE <<"Baixa", "bad">>

\* factorFromTempMean, in hundredths
factorFromTempMean(t) ==
  IF ~IsFinite(t) THEN 95
  ELSE IF t.v <= 20 THEN 100
  ELSE IF t.v <= 25 THEN 95
  ELSE IF t.v <= 30 THEN 85
  ELSE 70

(* --------------------------- maps and JSON ----------------------------- *)
EmptyMap == << >>
MapHas(m, k) == k \in DOMAIN m
MapSet(m, k, v) == [j \in DOMAIN m \cup {k} |-> IF j = k THEN v ELSE m[j]]

\* JSON.stringify writes NaN as null; JSON.parse reads null back as null
JSONNum(x) == IF x = NaN THEN Null ELSE x
JSONEntry(e) == [tmean |-> JSONNum(e.tmean), factor |-> JSONNum(e.factor)]
JSONCache(m) == [k \in DOMAIN m |-> JSONEntry(m[k])]

\* an item of localStorage: absent, or the parsed value of its JSON text
NoItem == [present |-> FALSE, val |-> EmptyMap]
Item(v) == [present |-> TRUE, val |-> v]

\* loadMeteoCache: a failing read or parse gives an empty map
loadMeteoCache(item, readOk) ==
  IF ~readOk \/ ~item.present THEN EmptyMap ELSE item.val

\* saveMeteoCache: a failing write is ignored
saveMeteoCache(item, map, writeOk) ==
  IF writeOk THEN Item(JSONCache(map)) ELSE item

\* the pack cached for a failed or empty request
FailPack == [tmean |-> NaN, factor |-> Num(95)]

RECURSIVE SumSeq(_)
SumSeq(s) == IF s = <<>> THEN 0 ELSE Head(s) + SumSeq(Tail(s))

\* the pack of a response body: body.t is "malformed" (r.json() rejects) or
\* "json" with the daily temperature_2m_mean series (empty when missing)
PackOfBody(body) ==
  IF body.t = "malformed" THEN FailPack
  ELSE IF Len(body.temps) = 0 THEN FailPack
  ELSE LET tmean == Num(SumSeq(body.temps) \div Len(body.temps))
       IN [tmean |-> tmean, factor |-> Num(factorFromTempMean(tmean))]

\* the cache key getTempMeanForPeriod computes for a range
RangeKey(startUTC, endUTC) == isoDateUTC(startUTC) \o <<"|">> \o isoDateUTC(endUTC)

\* a lookup that never finds the entry
CacheNeverHit(map, key) == FALSE
\* getTempMeanForPeriod's cache test
CacheHit(map, key) == MapHas(map, key)

\* key.split("|"): the parts before and after the first "|" (keys hold one)
BarAt(key) == CHOOSE i \in 1..Len(key) : key[i] = "|" /\ \A j \in 1..(i - 1) : key[j] # "|"
SplitKey(key) == <<SubSeq(key, 1, BarAt(key) - 1), SubSeq(key, BarAt(key) + 1, Len(key))>>

\* the Date a worker rebuilds from one half of a queued key
DateOfIso(s) ==
  DateUTC(ToNumber(Slice(s, 0, 4)), Minus1(ToNumber(Slice(s, 5, 7))), ToNumber(Slice(s, 8, 10)))

\* the cache key a pool worker resolves for a queued key
WorkerKey(key) == RangeKey(DateOfIso(SplitKey(key)[1]), DateOfIso(SplitKey(key)[2]))

\* a pool with one worker per range, whatever the configured concurrency
PoolSizeUncapped(concHalves, total) == Max(1, total)
\* preloadMeteoPeriods: number of workers started; conc is in halves, so that
\* a fractional METEO_CONCURRENCY can be given (for(i=0;i<n;i++))
PoolSize(concHalves, total) ==
  LET n2 == Max(2, Min(concHalves, 2 * (IF total = 0 THEN 1 ELSE total)))
  IN (n2 + 1) \div 2

\* cfg.METEO_CONCURRENCY, in halves: the option when finite, else the default
CfgConc(opt) == IF IsFinite(opt) THEN opt.v ELSE 2 * METEO_CONCURRENCY

(* ------------------------------- input --------------------------------- *)
\* A CSV text is given by its data rows, already split into the seven named
\* columns of the header, and by its number of non-blank lines.
Row(animal, sexo, grupo, dant, pant, datual, patual) ==
  [animal |-> animal, sexo |-> sexo, grupo |-> grupo, dant |-> dant, pant |-> pant,
   datual |-> datual, patual |-> patual]

\* the rows a CSV text is made of: a gaining male, a losing female of the same
\* group and weigh date, an animal weighed in the year 999 with no earlier
\* weighing, and an animal whose current date cannot be read
RowCatalogue ==
  { Row("A1", "M", "G1", DateText(2024, 1, 1), NumText(400), DateText(2024, 3, 1), NumText(460)),
    Row("A2", "F", "G1", DateText(2024, 1, 1), NumText(460), DateText(2024, 3, 1), NumText(400)),
    Row("A3", "M", "G2", NoText, NoText, DateText(999, 1, 1), NumText(300)),
    Row("A4", "M", "G2", DateText(2024, 1, 1), NumText(400), BadText, NumText(450)) }

RECURSIVE SeqsUpTo(_, _)
SeqsUpTo(S, n) ==
  IF n = 0 THEN {<<>>}
  ELSE LET shorter == SeqsUpTo(S, n - 1)
       IN shorter \cup {Append(q, e) : q \in {r \in shorter : Len(r) = n - 1}, e \in S}

\* a text with a header line and the given rows, or the empty text
CsvText(rows) == [lines |-> 1 + Len(rows), rows |-> rows]
EmptyText == [lines |-> 0, rows |-> <<>>]
AllFiles == {EmptyText} \cup {CsvText(q) : q \in SeqsUpTo(RowCatalogue, MaxRows)}

\* the texts imported again and again in the repeated-import scenario
RepeatFiles ==
  {CsvText(<<>>)} \cup { CsvText(<<r>>) : r \in {q \in RowCatalogue : q.animal \in {"A1", "A3"}} }

\* opts.METEO_CONCURRENCY in halves: absent, 0, 1.5; the texts imported again
\* and again have one range, which every value gives one worker
ConcOptions(sc) == IF sc = "single" THEN {NaN, Num(0), Num(3)} ELSE {NaN}
\* opts.onProgress: absent, a callback that returns, one that always throws,
\* one that throws once a range has been completed
Callbacks == {"none", "returns", "throws", "throwsOnDone"}
\* response bodies of the archive endpoint
Bodies == { [t |-> "malformed", temps |-> <<>>], [t |-> "json", temps |-> <<>>],
            [t |-> "json", temps |-> <<26, 28>>] }
\* arguments of setTargets
TargetArgs == { <<Num(600), NaN>> }
\* the day `new Date()` gives
TodayUTC == DateUTC(Num(2024), Num(2), Num(11))

(* --------------------------- processCSVText ---------------------------- *)
\* an ingestion check that rejects only the empty text
IngestionFailsOnEmptyOnly(nLines) == nLines < 1
\* the fatal ingestion test on the non-blank lines
IngestionFails(nLines) == nLines < 2

\* one parsed row (the loop body over lines[1..])
ParseRow(f) ==
  LET dAnt == parseDatePT(f.dant)
      pAnt == parseNumber(f.pant)
      dAtual == parseDatePT(f.datual)
      pAtual == parseNumber(f.patual)
      d == daysBetweenUTC(dAnt, dAtual)
      gmdInd == IF dAnt # Null /\ dAtual # Null /\ IsFinite(pAnt) /\ IsFinite(pAtual)
                   /\ IsFinite(d) /\ d.v > 0
                THEN Num(((pAtual.v - pAnt.v) * RateDen) \div d.v)
                ELSE NaN
  IN [animal |-> f.animal, sexo |-> f.sexo, grupo |-> f.grupo, dAnt |-> dAnt, pAnt |-> pAnt,
      dAtual |-> dAtual, pAtual |-> pAtual, gmdInd |-> gmdInd]

ParseRows(fs) == [i \in 1..Len(fs) |-> ParseRow(fs[i])]

\* the key added to periodKeys for a row with a current date
PeriodKey(r) == RangeKey(r.dAtual, TodayUTC)

\* The parsing and formatting above are pure: their values on the catalogue are
\* tabulated once.
ParsedTexts == [q \in SeqsUpTo(RowCatalogue, MaxRows) |-> ParseRows(q)]
DatedRows == {r \in {ParseRow(f) : f \in RowCatalogue} : r.dAtual # Null}
\* start|end of getTempMeanForPeriod for the current date of row r
KeyOfRow == [r \in DatedRows |-> PeriodKey(r)]
\* start|end of getTempMeanForPeriod for the dates a worker re-parses from key
KeyOfWorker == [k \in {KeyOfRow[r] : r \in DatedRows} |-> WorkerKey(k)]

RECURSIVE PeriodKeys(_)
\* Array.from(periodKeys): the distinct keys in insertion order
PeriodKeys(rows) ==
  IF rows = <<>> THEN <<>>
  ELSE LET front == PeriodKeys(SubSeq(rows, 1, Len(rows) - 1))
           r == rows[Len(rows)]
       IN IF r.dAtual = Null \/ \E i \in 1..Len(front) : front[i] = PeriodKey(r)
          THEN front ELSE Append(front, PeriodKey(r))

RECURSIVE GroupSamples(_, _)
\* gmdIndSamples[g]
GroupSamples(rows, g) ==
  IF rows = <<>> THEN <<>>
  ELSE LET r == Head(rows)
       IN (IF r.grupo = g /\ IsFinite(r.gmdInd) THEN <<r.gmdInd.v>> ELSE <<>>)
            \o GroupSamples(Tail(rows), g)

Groups(rows) == {rows[i].grupo : i \in 1..Len(rows)}

gmdMediaGrupo(rows) ==
  [g \in Groups(rows) |->
     LET arr == GroupSamples(rows, g)
     IN IF Len(arr) > 0 THEN Num(SumSeq(arr) \div Len(arr)) ELSE NaN]

gmdEstimativaGrupo(rows) ==
  [g \in Groups(rows) |->
     LET arr == GroupSamples(rows, g)
     IN IF Len(arr) > 0 THEN Num(SumSeq(arr) \div Len(arr))
        ELSE Num(CONSERVATIVE_FALLBACK_GMD)]

\* the row test of the per-animal pass
hasAtual(r) == r.dAtual # Null /\ IsFinite(r.pAtual)

Dash == [t |-> "dash"]

\* the result pushed for an incomplete row
IncompleteAnimal(r) ==
  [sortKey |-> 99, animal |-> r.animal, grupo |-> r.grupo, sexo |-> r.sexo,
   temp |-> Dash, fatorClima |-> NaN, conf |-> "-", estado |-> "-", bucket |-> "none",
   gmdBase |-> NaN]

\* gmdBase of a viable row
GmdBase(r, estim) ==
  IF IsFinite(r.gmdInd) THEN r.gmdInd
  ELSE IF r.grupo \in DOMAIN estim THEN estim[r.grupo] ELSE Num(CONSERVATIVE_FALLBACK_GMD)

\* the result pushed for a viable row, given the pack of its range
ViableAnimal(r, meteo, rows) ==
  LET status == performanceStatus(r.gmdInd, gmdMediaGrupo(rows)[r.grupo])
  IN [sortKey |-> status[3], animal |-> r.animal, grupo |-> r.grupo, sexo |-> r.sexo,
      temp |-> IF IsFinite(meteo.tmean) THEN meteo.tmean ELSE Dash,
      fatorClima |-> meteo.factor,
      conf |-> confidenceByDays(daysBetweenUTC(r.dAtual, TodayUTC))[1],
      estado |-> status[1],
      bucket |-> status[4],
      gmdBase |-> GmdBase(r, gmdEstimativaGrupo(rows))]

\* localeCompare on the names of the catalogue
NameRank(s) ==
  CASE s = "A1" -> 1 [] s = "A2" -> 2 [] s = "A3" -> 3 [] s = "A4" -> 4
    [] s = "G1" -> 5 [] s = "G2" -> 6 [] s = "G3" -> 7 [] OTHER -> 0

\* the comparator of animalsOut.sort
AnimalBefore(a, b) ==
  \/ a.sortKey < b.sortKey
  \/ a.sortKey = b.sortKey /\ NameRank(a.grupo) < NameRank(b.grupo)
  \/ a.sortKey = b.sortKey /\ a.grupo = b.grupo /\ NameRank(a.animal) < NameRank(b.animal)

RECURSIVE InsertAnimal(_, _)
InsertAnimal(sorted, a) ==
  IF sorted = <<>> THEN <<a>>
  ELSE IF AnimalBefore(a, Head(sorted)) THEN <<a>> \o sorted
  ELSE <<Head(sorted)>> \o InsertAnimal(Tail(sorted), a)

RECURSIVE SortAnimals(_)
\* animalsOut.sort (stable)
SortAnimals(as) ==
  IF as = <<>> THEN <<>>
  ELSE InsertAnimal(SortAnimals(SubSeq(as, 1, Len(as) - 1)), as[Len(as)])

DefaultTargets == [targetM |-> Num(DefaultTargetM), targetF |-> Num(DefaultTargetF)]

\* getEmptyState
getEmptyState ==
  [lines |-> 0, processed_ok |-> 0, processed_fail |-> 0, animalsOut |-> <<>>,
   gmdMediaGrupo |-> EmptyMap, gmdEstimativaGrupo |-> EmptyMap, targets |-> DefaultTargets]

\* JSON.stringify / JSON.parse of a State
JSONAnimal(a) == [a EXCEPT !.fatorClima = JSONNum(@), !.gmdBase = JSONNum(@)]
JSONState(st) ==
  [st EXCEPT !.animalsOut = [i \in 1..Len(@) |-> JSONAnimal(@[i])],
             !.gmdMediaGrupo = [g \in DOMAIN @ |-> JSONNum(@[g])],
             !.gmdEstimativaGrupo = [g \in DOMAIN @ |-> JSONNum(@[g])]]

\* an absent State item
NoState == [present |-> FALSE, val |-> getEmptyState]

\* loadState
loadState(item, readOk) == IF ~readOk \/ ~item.present THEN Null ELSE item.val
\* ensureState
ensureState(item, readOk) ==
  IF loadState(item, readOk) = Null THEN getEmptyState ELSE loadState(item, readOk)
\* saveState: a failing write is ignored
saveState(item, st, writeOk) == IF writeOk THEN Item(JSONState(st)) ELSE item
\* an import that keeps the targets persisted before it
MergedState(previous, st) == [st EXCEPT !.targets = ensureState(previous, TRUE).targets]
\* what importCSVText hands to saveState
ImportedState(previous, st) == st

\* Core.setTargets' new State
WithTargets(st, tM, tF) ==
  [st EXCEPT !.targets = [targetM |-> IF IsFinite(tM) THEN tM ELSE Num(DefaultTargetM),
                          targetF |-> IF IsFinite(tF) THEN tF ELSE Num(DefaultTargetF)]]

\* Core.getTargets
getTargets(item, readOk) ==
  LET t == ensureState(item, readOk).targets
  IN [targetM |-> IF IsFinite(t.targetM) THEN t.targetM ELSE Num(DefaultTargetM),
      targetF |-> IF IsFinite(t.targetF) THEN t.targetF ELSE Num(DefaultTargetF)]

(* ------------------------------ forecast ------------------------------- *)
\* Weights are whole kg; a number of days is the quotient n/d of two integers,
\* d > 0, kept unreduced so that no division rounds.
Days(n, d) == [t |-> "num", n |-> n, d |-> d]
DaysLess(a, b) == a.n * b.d < b.n * a.d
DaysEqual(a, b) == a.n * b.d = b.n * a.d

\* pickGmdUsed
pickGmdUsed(realGmd, fallback) ==
  IF IsFinite(realGmd) /\ realGmd.v > 0 THEN realGmd ELSE fallback

\* classifyReady: [label, class]
classifyReady(pesoEst, alvo) ==
  IF ~IsFinite(pesoEst) \/ ~IsFinite(alvo) THEN <<"-", "muted">>
  ELSE IF pesoEst.v >= alvo.v THEN <<"Pronto", "ok">>
  ELSE IF pesoEst.v >= alvo.v - 20 THEN <<"Quase la", "warn">>
  ELSE <<"Em engorda", "muted">>

\* calcDaysToTarget; gmd is in 1/RateDen kg/day
calcDaysToTarget(pesoEst, alvo, gmd) ==
  IF ~IsFinite(pesoEst) \/ ~IsFinite(alvo) \/ ~IsFinite(gmd) THEN NaN
  ELSE IF gmd.v <= 0 THEN NaN
  ELSE IF pesoEst.v >= alvo.v THEN Days(0, 1)
  ELSE Days((alvo.v - pesoEst.v) * RateDen, gmd.v)

\* minDays of a forecast row: Math.min with NaN taken as Infinity, NaN if both are
minDays(daysM, daysF) ==
  IF ~IsFinite(daysM) THEN daysF
  ELSE IF ~IsFinite(daysF) THEN daysM
  ELSE IF DaysLess(daysF, daysM) THEN daysF ELSE daysM

\* estadoTexto, estadoClass of a forecast row
ForecastEstado(g, stM, stF) ==
  IF g.m > 0 /\ g.f > 0
  THEN IF stM[2] = "ok" /\ stF[2] = "ok" THEN <<"M e F prontos", "ok">>
       ELSE IF stM[2] = "ok" \/ stF[2] = "ok" THEN <<"Parcialmente pronto (misto)", "warn">>
       ELSE IF stM[2] = "warn" \/ stF[2] = "warn" THEN <<"Quase la (misto)", "warn">>
       ELSE <<"Em engorda (misto)", "muted">>
  ELSE IF g.m > 0 THEN stM
  ELSE IF g.f > 0 THEN stF
  ELSE <<"-", "muted">>

\* targetM, targetF of computeForecast
ForecastTargets(targets) ==
  [targetM |-> IF IsFinite(targets.targetM) THEN targets.targetM ELSE Num(DefaultTargetM),
   targetF |-> IF IsFinite(targets.targetF) THEN targets.targetF ELSE Num(DefaultTargetF)]

\* the row computeForecast maps group g to
ForecastRow(g, targets) ==
  LET t == ForecastTargets(targets)
      fallback == Num(CONSERVATIVE_FALLBACK_GMD)
      daysM == calcDaysToTarget(g.avgEstM, t.targetM, pickGmdUsed(g.avgGmdM, fallback))
      daysF == calcDaysToTarget(g.avgEstF, t.targetF, pickGmdUsed(g.avgGmdF, fallback))
      estado == ForecastEstado(g, classifyReady(g.avgEstM, t.targetM),
                               classifyReady(g.avgEstF, t.targetF))
  IN [name |-> g.name, m |-> g.m, f |-> g.f, pM |-> g.avgEstM, pF |-> g.avgEstF,
      daysM |-> daysM, daysF |-> daysF, minDays |-> minDays(daysM, daysF),
      estadoTexto |-> estado[1], estadoClass |-> estado[2]]

\* the comparator of rows.sort in computeForecast: a sorts before b
ForecastBefore(a, b) ==
  LET aReady == IF IsFinite(a.minDays) /\ a.minDays.n = 0 THEN 0 ELSE 1
      bReady == IF IsFinite(b.minDays) /\ b.minDays.n = 0 THEN 0 ELSE 1
  IN IF aReady # bReady THEN aReady < bReady
     ELSE IF IsFinite(a.minDays) /\ ~IsFinite(b.minDays) THEN TRUE
     ELSE IF ~IsFinite(a.minDays) /\ IsFinite(b.minDays) THEN FALSE
     ELSE IF IsFinite(a.minDays) /\ ~DaysEqual(a.minDays, b.minDays)
          THEN DaysLess(a.minDays, b.minDays)
     ELSE NameRank(a.name) < NameRank(b.name)

RECURSIVE InsertForecast(_, _)
InsertForecast(sorted, a) ==
  IF sorted = <<>> THEN <<a>>
  ELSE IF ForecastBefore(a, Head(sorted)) THEN <<a>> \o sorted
  ELSE <<Head(sorted)>> \o InsertForecast(Tail(sorted), a)

RECURSIVE SortForecast(_)
\* rows.sort (stable)
SortForecast(rs) ==
  IF rs = <<>> THEN <<>>
  ELSE InsertForecast(SortForecast(SubSeq(rs, 1, Len(rs) - 1)), rs[Len(rs)])

\* computeForecast(state, targets), of state.groupsOut
computeForecast(groupsOut, targets) ==
  SortForecast([i \in 1..Len(groupsOut) |-> ForecastRow(groupsOut[i], targets)])

\* Groups of a State, as processCSVText aggregates them: m and f count the
\* viable rows of each sex, avgEst* is defined exactly when the sex has rows,
\* avgGmd* when it has growth-rate samples.
Group(name, m, f, avgEstM, avgEstF, avgGmdM, avgGmdF) ==
  [name |-> name, m |-> m, f |-> f, avgEstM |-> avgEstM, avgEstF |-> avgEstF,
   avgGmdM |-> avgGmdM, avgGmdF |-> avgGmdF]
GroupNames == {"G1", "G2", "G3"}
GroupCatalogue ==
  UNION { { Group(n, 1, 1, Num(630), Num(530), Num(600), Num(600)),
            Group(n, 1, 1, Num(630), Num(480), NaN, NaN),
            Group(n, 1, 1, Num(605), Num(400), Num(600), Num(-600)),
            Group(n, 2, 0, Num(565), NaN, Num(600), NaN),
            Group(n, 2, 0, Num(640), NaN, NaN, NaN),
            Group(n, 0, 1, NaN, Num(510), NaN, NaN),
            Group(n, 0, 0, NaN, NaN, NaN, NaN) } : n \in GroupNames }
\* groupsOut holds one entry per group name
GroupLists ==
  {q \in SeqsUpTo(GroupCatalogue, MaxGroups) :
     \A i, j \in 1..Len(q) : i # j => q[i].name # q[j].name}
\* the targets argument: absent, or with targetM given
ForecastTargetArgs ==
  { [targetM |-> NaN, targetF |-> NaN], [targetM |-> Num(600), targetF |-> NaN] }

(* ------------------------------- state --------------------------------- *)
VARIABLES
  storeState,  \* localStorage[STORAGE_KEY]
  storeMeteo,  \* localStorage[METEO_CACHE_KEY]
  requests,    \* external requests issued so far, per (start,end) range being
               \* resolved: the key collected from the rows
  shared,      \* history: the imports so far shared the persisted weather cache (no
               \* read or write of it failed, no entry of it was cleared, no import
               \* was aborted before saving it)
  scenario,    \* which CSV texts are offered to importCSVText: "single" or "repeat"
  runsLeft,    \* imports still to be started
  pc,          \* importCSVText: "idle", "preload", "animals", "returned", "failed"
  inp,         \* arguments of the import: [csv, conc, cb]
  cache,       \* meteoCacheMap
  queue,       \* keys of preloadMeteoPeriods
  total,       \* total of preloadMeteoPeriods
  done,        \* done of preloadMeteoPeriods
  wk,          \* fetcher 0 is the per-animal pass, 1..n are the pool workers:
               \* [st, key], st one of "none", "hit" (resolved from the cache,
               \* continuation queued), "fetch" (awaiting fetchWithTimeout, timer
               \* armed), "body" (awaiting r.json(), timer cleared), "exit", "threw"
  rowI,        \* index of the row the per-animal pass is at
  animalsOut,  \* results pushed so far
  ret,         \* what importCSVText returned or threw:
               \* [kind |-> "none" | "state" | "ingestion" | "callback", st]
  progress,    \* the calls made to onProgress: <<phase, done, total>>
  forecast,    \* the last call of computeForecast: [groupsOut, targets, rows, called]
  io           \* what happened around this import: [cacheSeen, saveState, targetsSet]:
               \* whether loadMeteoCache read the persisted cache (or there was
               \* none), how saveState ended, whether setTargets ran meanwhile

vars == <<storeState, storeMeteo, requests, shared, scenario, forecast, runsLeft, pc, inp, cache, queue,
          total, done, wk, rowI, animalsOut, ret, progress, io>>

NoKey == <<>>
Idle == [st |-> "none", key |-> NoKey]
NoIo == [cacheSeen |-> TRUE, saveState |-> "none", targetsSet |-> FALSE]
NoRet == [kind |-> "none", st |-> getEmptyState]
NoForecast == [groupsOut |-> <<>>, targets |-> [targetM |-> NaN, targetF |-> NaN],
               rows |-> <<>>, called |-> FALSE]
Outcome(ok) == IF ok THEN "ok" ELSE "failed"

Workers == DOMAIN wk \ {0}
\* const rows of processCSVText
rows == ParsedTexts[inp.csv.rows]
Files == IF scenario = "single" THEN AllFiles ELSE RepeatFiles
\* requests awaiting the collaborator
InFlight(S) == {w \in S : wk[w].st \in {"fetch", "body"}}
\* a continuation is queued: it runs before any timer, response or user event
MicrotaskPending ==
  \/ \E w \in Workers : wk[w].st = "hit"
  \/ pc = "preload" /\ \A w \in Workers : wk[w].st = "exit"
  \/ pc = "animals" /\ wk[0].st = "none"
Quiescent == InFlight(DOMAIN wk) = {} /\ ~MicrotaskPending

CallbackThrows(cb, phase, d) ==
  \/ cb = "throws"
  \/ cb = "throwsOnDone" /\ phase = "meteo" /\ d >= 1
LogCall(log, cb, phase, d, t) == IF cb = "none" THEN log ELSE Append(log, <<phase, d, t>>)

Count(req, key) == IF MapHas(req, key) THEN req[key] ELSE 0
\* the external request of getTempMeanForPeriod
Issue(req, key) == MapSet(req, key, Count(req, key) + 1)

\* getTempMeanForPeriod up to its first await, for fetcher w and cache key key
Resolve(w, key, map) == [st |-> IF CacheHit(map, key) THEN "hit" ELSE "fetch", key |-> key]

RECURSIVE StartWorkers(_, _, _, _)
\* workers.push(worker()) for workers i..n: each runs to its first await.
\* Gives [wk, queue, requests].
StartWorkers(i, n, acc, map) ==
  IF i > n THEN acc
  ELSE IF acc.queue = <<>>
       THEN StartWorkers(i + 1, n, [acc EXCEPT !.wk = MapSet(@, i, [st |-> "exit", key |-> NoKey])], map)
       ELSE LET w == Resolve(i, KeyOfWorker[Head(acc.queue)], map)
            IN StartWorkers(i + 1, n,
                 [wk |-> MapSet(acc.wk, i, w), queue |-> Tail(acc.queue),
                  requests |-> IF w.st = "fetch" THEN Issue(acc.requests, Head(acc.queue))
                               ELSE acc.requests],
                 map)

Init ==
  /\ storeState = NoState
  /\ storeMeteo = NoItem
  /\ requests = EmptyMap
  /\ shared = TRUE
  /\ \/ scenario = "single" /\ runsLeft = 1
     \/ scenario = "repeat" /\ runsLeft = MaxRuns
  /\ pc = "idle"
  /\ inp = [csv |-> EmptyText, conc |-> NaN, cb |-> "none"]
  /\ cache = EmptyMap
  /\ queue = <<>>
  /\ total = 0
  /\ done = 0
  /\ wk = [w \in {0} |-> Idle]
  /\ rowI = 1
  /\ animalsOut = <<>>
  /\ ret = NoRet
  /\ progress = <<>>
  /\ io = NoIo
  /\ forecast = NoForecast

(* ------------------------------ actions -------------------------------- *)
\* Core.importCSVText -> processCSVText, up to the first await
StartImport(csv, conc, cb, readOk) ==
  /\ runsLeft > 0
  /\ pc \in {"idle", "returned", "failed"}
  /\ Quiescent
  /\ runsLeft' = runsLeft - 1
  /\ inp' = [csv |-> csv, conc |-> conc, cb |-> cb]
  /\ rowI' = 1
  /\ animalsOut' = <<>>
  /\ done' = 0
  /\ UNCHANGED <<storeState, storeMeteo, scenario, forecast>>
  /\ IF IngestionFails(csv.lines)
     THEN /\ pc' = "failed"
          /\ ret' = [kind |-> "ingestion", st |-> getEmptyState]
          /\ cache' = EmptyMap /\ queue' = <<>> /\ total' = 0
          /\ wk' = [w \in {0} |-> Idle]
          /\ progress' = <<>>
          /\ io' = NoIo
          /\ UNCHANGED <<requests, shared>>
     ELSE IF CallbackThrows(cb, "parse", 0)
     THEN /\ pc' = "failed"
          /\ ret' = [kind |-> "callback", st |-> getEmptyState]
          /\ cache' = EmptyMap /\ queue' = <<>> /\ total' = 0
          /\ wk' = [w \in {0} |-> Idle]
          /\ progress' = LogCall(<<>>, cb, "parse", 0, csv.lines - 1)
          /\ io' = NoIo
          /\ UNCHANGED <<requests, shared>>
     ELSE LET parsed == ParseRows(csv.rows)
              keys == PeriodKeys(parsed)
              map == loadMeteoCache(storeMeteo, readOk)
              n == PoolSize(CfgConc(conc), Len(keys))
              started == StartWorkers(1, n,
                           [wk |-> [w \in {0} |-> Idle], queue |-> keys, requests |-> requests],
                           map)
          IN /\ pc' = "preload"
             /\ ret' = NoRet
             /\ cache' = map
             /\ total' = Len(keys)
             /\ wk' = started.wk
             /\ queue' = started.queue
             /\ requests' = started.requests
             /\ progress' = LogCall(LogCall(<<>>, cb, "parse", 0, csv.lines - 1),
                                    cb, "meteo", 0, Len(keys))
             /\ io' = [NoIo EXCEPT !.cacheSeen = readOk \/ ~storeMeteo.present]
             /\ shared' = (shared /\ (readOk \/ ~storeMeteo.present))

\* A pool worker resumes after getTempMeanForPeriod returned pack: done++,
\* onProgress, and the next turn of its loop. A throwing callback rejects the
\* worker and, through Promise.all, the import; the other workers go on.
WorkerContinues(w, map) ==
  /\ done' = done + 1
  /\ progress' = LogCall(progress, inp.cb, "meteo", done + 1, total)
  /\ cache' = map
  /\ IF CallbackThrows(inp.cb, "meteo", done + 1)
     THEN /\ wk' = [wk EXCEPT ![w] = [st |-> "threw", key |-> NoKey]]
          /\ pc' = IF pc = "preload" THEN "failed" ELSE pc
          /\ ret' = IF pc = "preload" THEN [kind |-> "callback", st |-> getEmptyState] ELSE ret
          /\ shared' = (shared /\ pc # "preload")
          /\ UNCHANGED <<queue, requests>>
     ELSE IF queue = <<>>
     THEN /\ wk' = [wk EXCEPT ![w] = [st |-> "exit", key |-> NoKey]]
          /\ UNCHANGED <<queue, requests, pc, ret, shared>>
     ELSE LET next == Resolve(w, KeyOfWorker[Head(queue)], map)
          IN /\ wk' = [wk EXCEPT ![w] = next]
             /\ queue' = Tail(queue)
             /\ requests' = IF next.st = "fetch" THEN Issue(requests, Head(queue)) ELSE requests
             /\ UNCHANGED <<pc, ret, shared>>
  /\ UNCHANGED <<storeState, storeMeteo, scenario, forecast, runsLeft, inp, total, rowI, animalsOut, io>>

\* The per-animal pass resumes with the pack of row rowI.
AnimalContinues(map, pack) ==
  /\ cache' = map
  /\ animalsOut' = Append(animalsOut, ViableAnimal(rows[rowI], pack, rows))
  /\ rowI' = rowI + 1
  /\ wk' = [wk EXCEPT ![0] = Idle]
  /\ UNCHANGED <<storeState, storeMeteo, requests, shared, scenario, forecast, runsLeft, pc, inp, queue,
                 total, done, ret, progress, io>>

\* fetcher w's getTempMeanForPeriod caches pack and returns it
Completes(w, pack) ==
  LET map == MapSet(cache, wk[w].key, pack)
  IN IF w = 0 THEN AnimalContinues(map, pack) ELSE WorkerContinues(w, map)

\* a worker whose range was in the cache
WorkerResumes(w) ==
  /\ w \in Workers
  /\ wk[w].st = "hit"
  /\ WorkerContinues(w, cache)

\* setTimeout fires: controller.abort() rejects the pending fetch
Timeout(w) ==
  /\ w \in DOMAIN wk
  /\ ~MicrotaskPending
  /\ wk[w].st = "fetch"
  /\ Completes(w, FailPack)

\* fetch rejects (transport error), or the response arrives with a non-2xx
\* status and !r.ok throws
RequestFails(w) ==
  /\ w \in DOMAIN wk
  /\ ~MicrotaskPending
  /\ wk[w].st = "fetch"
  /\ Completes(w, FailPack)

\* the response arrives with a 2xx status: fetch resolves, finally() clears the
\* timer, r.json() starts reading the body
HeadersOk(w) ==
  /\ w \in DOMAIN wk
  /\ ~MicrotaskPending
  /\ wk[w].st = "fetch"
  /\ wk' = [wk EXCEPT ![w].st = "body"]
  /\ UNCHANGED <<storeState, storeMeteo, requests, shared, scenario, forecast, runsLeft, pc, inp, cache,
                 queue, total, done, rowI, animalsOut, ret, progress, io>>

\* the body has been read
BodyArrives(w, body) ==
  /\ w \in DOMAIN wk
  /\ ~MicrotaskPending
  /\ wk[w].st = "body"
  /\ Completes(w, PackOfBody(body))

\* Promise.all(workers) resolved: saveMeteoCache, then the per-animal pass
PoolDrained(writeOk) ==
  /\ pc = "preload"
  /\ \A w \in Workers : wk[w].st = "exit"
  /\ storeMeteo' = saveMeteoCache(storeMeteo, cache, writeOk)
  /\ pc' = "animals"
  /\ shared' = (shared /\ writeOk)
  /\ UNCHANGED <<storeState, requests, io, scenario, forecast, runsLeft, inp, cache, queue, total, done,
                 wk, rowI, animalsOut, ret, progress>>

\* one turn of the per-animal loop, up to its await
AnimalStep ==
  /\ pc = "animals"
  /\ wk[0].st = "none"
  /\ rowI <= Len(rows)
  /\ LET r == rows[rowI]
     IN IF ~hasAtual(r)
        THEN /\ animalsOut' = Append(animalsOut, IncompleteAnimal(r))
             /\ rowI' = rowI + 1
             /\ UNCHANGED <<wk, requests>>
        ELSE LET key == KeyOfRow[r]
             IN IF CacheHit(cache, key)
                THEN /\ animalsOut' = Append(animalsOut, ViableAnimal(r, cache[key], rows))
                     /\ rowI' = rowI + 1
                     /\ UNCHANGED <<wk, requests>>
                ELSE /\ wk' = [wk EXCEPT ![0] = [st |-> "fetch", key |-> key]]
                     /\ requests' = Issue(requests, key)
                     /\ UNCHANGED <<animalsOut, rowI>>
  /\ UNCHANGED <<storeState, storeMeteo, shared, scenario, forecast, runsLeft, pc, inp, cache, queue,
                 total, done, ret, progress, io>>

\* the State processCSVText returns
FinalState ==
  [lines |-> inp.csv.lines - 1,
   processed_ok |-> Cardinality({i \in 1..Len(rows) : hasAtual(rows[i])}),
   processed_fail |-> Cardinality({i \in 1..Len(rows) : ~hasAtual(rows[i])}),
   animalsOut |-> SortAnimals(animalsOut),
   gmdMediaGrupo |-> gmdMediaGrupo(rows),
   gmdEstimativaGrupo |-> gmdEstimativaGrupo(rows),
   targets |-> DefaultTargets]

\* processCSVText returns; importCSVText saves the State and returns it
ImportReturns(writeOk) ==
  /\ pc = "animals"
  /\ wk[0].st = "none"
  /\ rowI > Len(rows)
  /\ ret' = [kind |-> "state", st |-> FinalState]
  /\ storeState' = saveState(storeState, ImportedState(storeState, FinalState), writeOk)
  /\ io' = [io EXCEPT !.saveState = Outcome(writeOk)]
  /\ pc' = "returned"
  /\ UNCHANGED <<storeMeteo, requests, shared, scenario, forecast, runsLeft, inp, cache, queue, total, done,
                 wk, rowI, animalsOut, progress>>

\* Core.setTargets
SetTargets(tM, tF, readOk, writeOk) ==
  /\ ~MicrotaskPending
  /\ storeState' = saveState(storeState, WithTargets(ensureState(storeState, readOk), tM, tF),
                             writeOk)
  /\ io' = [io EXCEPT !.targetsSet = @ \/ (pc \in {"preload", "animals"} /\ writeOk)]
  /\ UNCHANGED <<storeMeteo, requests, shared, scenario, forecast, runsLeft, pc, inp, cache, queue, total,
                 done, wk, rowI, animalsOut, ret, progress>>

\* Core.clearState
ClearState ==
  /\ ~MicrotaskPending
  /\ storeState' = NoState
  /\ UNCHANGED <<storeMeteo, requests, shared, scenario, forecast, runsLeft, pc, inp, cache, queue, total,
                 done, wk, rowI, animalsOut, ret, progress, io>>

\* Core.clearMeteoCache
ClearMeteoCache ==
  /\ ~MicrotaskPending
  /\ storeMeteo' = NoItem
  /\ shared' = (shared /\ ~storeMeteo.present)
  /\ UNCHANGED <<storeState, requests, scenario, forecast, runsLeft, pc, inp, cache, queue, total,
                 done, wk, rowI, animalsOut, ret, progress, io>>

Fetchers == 0..MaxRows

Next ==
  \/ \E csv \in Files, conc \in ConcOptions(scenario), cb \in Callbacks, readOk \in BOOLEAN :
       StartImport(csv, conc, cb, readOk)
  \/ \E w \in Fetchers : WorkerResumes(w)
  \/ \E w \in Fetchers : Timeout(w)
  \/ \E w \in Fetchers : RequestFails(w)
  \/ \E w \in Fetchers : HeadersOk(w)
  \/ \E w \in Fetchers, body \in Bodies : BodyArrives(w, body)
  \/ \E writeOk \in BOOLEAN : PoolDrained(writeOk)
  \/ AnimalStep
  \/ \E writeOk \in BOOLEAN : ImportReturns(writeOk)
  \/ \E t \in TargetArgs, readOk \in BOOLEAN, writeOk \in BOOLEAN :
       SetTargets(t[1], t[2], readOk, writeOk)
  \/ ClearState
  \/ ClearMeteoCache

Spec == Init /\ [][Next]_vars

\* computeForecast is a pure function of its arguments: it is applied to every
\* groupsOut and targets offered, with nothing imported and nothing stored.
ForecastInit ==
  /\ storeState = NoState
  /\ storeMeteo = NoItem
  /\ requests = EmptyMap
  /\ shared = TRUE
  /\ scenario = "single"
  /\ runsLeft = 0
  /\ pc = "idle"
  /\ inp = [csv |-> EmptyText, conc |-> NaN, cb |-> "none"]
  /\ cache = EmptyMap
  /\ queue = <<>>
  /\ total = 0
  /\ done = 0
  /\ wk = [w \in {0} |-> Idle]
  /\ rowI = 1
  /\ animalsOut = <<>>
  /\ ret = NoRet
  /\ progress = <<>>
  /\ io = NoIo
  /\ \E groupsOut \in GroupLists, targets \in ForecastTargetArgs :
       forecast = [groupsOut |-> groupsOut, targets |-> targets, rows |-> <<>>,
                   called |-> FALSE]

\* Core.computeForecast(state, targets)
ComputeForecast ==
  /\ ~forecast.called
  /\ forecast' = [forecast EXCEPT !.rows = computeForecast(forecast.groupsOut, forecast.targets),
                                  !.called = TRUE]
  /\ UNCHANGED <<storeState, storeMeteo, requests, shared, scenario, runsLeft, pc, inp, cache,
                 queue, total, done, wk, rowI, animalsOut, ret, progress, io>>

ForecastNext == ComputeForecast

ForecastSpec == ForecastInit /\ [][ForecastNext]_vars

\* The event loop runs every queued continuation and fires every armed timer;
\* the collaborator and the user owe nothing.
Fairness ==
  /\ \A w \in Fetchers : WF_vars(WorkerResumes(w)) /\ WF_vars(Timeout(w))
  /\ WF_vars(\E writeOk \in BOOLEAN : PoolDrained(writeOk))
  /\ WF_vars(AnimalStep)
  /\ WF_vars(\E writeOk \in BOOLEAN : ImportReturns(writeOk))

FairSpec == Init /\ [][Next]_vars /\ Fairness

(* ------------------------------- claims -------------------------------- *)
PoolInFlight == Cardinality(InFlight(Workers))
Persisted == storeMeteo.val

\* C1: resolving a (start,end) range twice, within an import (by a pool worker
\* and by the per-animal pass) or in successive imports sharing the persisted
\* cache, issues at most one external request in total, and no two workers
\* have a fetch in flight for the same range.
C1_CacheIdempotent ==
  /\ shared => \A k \in DOMAIN requests : requests[k] <= 1
  /\ \A v, w \in InFlight(Workers) : v # w => wk[v].key # wk[w].key

\* C2 as stated: the requests of the pool in flight are at most
\* min(METEO_CONCURRENCY, number of distinct ranges), for every configured
\* concurrency.
C2_InFlightAtMostConcurrency ==
  2 * PoolInFlight <= Min(CfgConc(inp.conc), 2 * total)

\* C2 amended: the requests of the pool in flight are at most
\* min(max(1, ceil(METEO_CONCURRENCY)), number of distinct ranges).
C2_BoundedPool ==
  PoolInFlight <= Min(Max(1, (CfgConc(inp.conc) + 1) \div 2), total)

\* C2 witness: a concurrency of 0 runs one worker, with a range still queued.
C2_Witness ==
  /\ pc = "preload"
  /\ inp.conc = Num(0)
  /\ PoolInFlight = 1
  /\ queue # <<>>

\* C3: the per-animal pass starts only once every distinct range collected
\* from the rows has a cache entry, so each of its lookups is a cache hit and
\* it issues no external request.
C3_BarrierThenHits ==
  /\ pc = "animals" => \A i \in 1..Len(PeriodKeys(rows)) : CacheHit(cache, PeriodKeys(rows)[i])
  /\ wk[0].st = "none"

C5_FatalErrorLeavesStore ==
  [][(runsLeft' < runsLeft /\ inp'.csv.lines < 2)
       => /\ pc' = "failed" /\ ret'.kind = "ingestion"
          /\ UNCHANGED <<storeState, storeMeteo, requests>>
          /\ InFlight(DOMAIN wk') = {}]_vars

\* C5 witness: the ingestion error with a State and a weather cache persisted.
C5_Witness ==
  /\ pc = "failed" /\ ret.kind = "ingestion"
  /\ storeState.present /\ storeMeteo.present /\ DOMAIN Persisted # {}

\* C6: importCSVText of a text with at least 2 non-blank lines never fails:
\* only the fatal ingestion error reaches the caller.
C6_OnlyIngestionErrorReachesCaller ==
  pc = "failed" => inp.csv.lines < 2

C8_PoolAlwaysFinishes == (pc = "preload") ~> (pc # "preload")

\* C9: the progress callback has no effect on the import: whatever it does,
\* the import ends as it does with no callback, so never with the callback's
\* failure.
C9_CallbackObservational ==
  ret.kind # "callback"

\* the base rate C10 states for row r
StatedBase(r) ==
  IF IsFinite(r.gmdInd) /\ r.gmdInd.v > 0 THEN r.gmdInd
  ELSE IF r.grupo \in DOMAIN gmdEstimativaGrupo(rows) THEN gmdEstimativaGrupo(rows)[r.grupo]
  ELSE Num(CONSERVATIVE_FALLBACK_GMD)

\* C10: the base rate of a viable row is its own sample only if that sample is
\* finite and > 0, else the group's estimate, else the fallback.
C10_BaseRate ==
  \A i \in 1..Len(animalsOut) :
    hasAtual(rows[i]) => animalsOut[i].gmdBase = StatedBase(rows[i])

\* the order C11 states: a group is fully ready when every sex it has is at or
\* above its target
AtTarget(peso, alvo) == IsFinite(peso) /\ peso.v >= alvo.v
FullyReady(r, t) ==
  /\ r.m > 0 \/ r.f > 0
  /\ r.m > 0 => AtTarget(r.pM, t.targetM)
  /\ r.f > 0 => AtTarget(r.pF, t.targetF)
StatedBefore(a, b, t) ==
  IF FullyReady(a, t) # FullyReady(b, t) THEN FullyReady(a, t)
  ELSE IF IsFinite(a.minDays) /\ ~IsFinite(b.minDays) THEN TRUE
  ELSE IF ~IsFinite(a.minDays) /\ IsFinite(b.minDays) THEN FALSE
  ELSE IF IsFinite(a.minDays) /\ ~DaysEqual(a.minDays, b.minDays)
       THEN DaysLess(a.minDays, b.minDays)
  ELSE NameRank(a.name) < NameRank(b.name)

\* C11: computeForecast returns the groups with the fully ready ones first, then
\* by ascending minimum days-to-target (undefined last), then by name; a mixed
\* group with only one sex at its target is not among the fully ready ones.
C11_ForecastOrder ==
  forecast.called =>
    \A i, j \in 1..Len(forecast.rows) :
      i < j => ~StatedBefore(forecast.rows[j], forecast.rows[i],
                             ForecastTargets(forecast.targets))

\* C12: every row without a parseable current date or current weight yields one
\* result classified "- (sem historico)" with bucket "none", is counted in
\* processed_fail and not in processed_ok, and processed_ok + processed_fail is
\* the number of data rows and the number of results.
C12_IncompleteRows ==
  /\ \A i \in 1..Len(animalsOut) :
       ~hasAtual(rows[i]) => /\ animalsOut[i].estado = "sem historico"
                             /\ animalsOut[i].bucket = "none"
  /\ ret.kind = "state" =>
       /\ ret.st.processed_fail = Cardinality({i \in 1..Len(rows) : ~hasAtual(rows[i])})
       /\ ret.st.processed_ok + ret.st.processed_fail = Len(rows)
       /\ Len(ret.st.animalsOut) = Len(rows)

====
